---- MODULE Spec2Model ----
(***************************************************************************)
(* LgNetCastClient (pylgnetcast.py): the session held by one client, the   *)
(* requests it hands to the HTTP transport and what each call returns or   *)
(* raises.                                                                 *)
(*                                                                         *)
(* A string is a sequence of lexemes.  A lexeme is one character ("7",     *)
(* "&"), one piece of markup ("<session>", "</session>", "<x />"), the     *)
(* entity "&amp;", or one fixed word of a template ("HandleKeyInput").     *)
(* Python's None is the one-lexeme sequence None, which no text equals.    *)
(*                                                                         *)
(* Each call of a public method is one step: the transport's part in it    *)
(* (raising, or answering with a status and a body) is chosen with the     *)
(* step.  op, sent, resp and outcome record the last call: the method and  *)
(* its argument, the requests handed to the transport, what the transport  *)
(* did, and how the call ended.  A success status is requests.codes.ok.    *)
(***************************************************************************)
EXTENDS Naturals, Sequences, FiniteSets

VARIABLES url, access_token, protocol, _session, op, sent, resp, outcome

vars == <<url, access_token, protocol, _session, op, sent, resp, outcome>>

(* ------------------------------ bounds -------------------------------- *)

\* Largest number of elements in an auth response body.
MaxAuthNodes == 2
\* Largest number of elements in a query response body.
MaxDataNodes == 3

(* --------------------------- module constants ------------------------- *)

None == <<"#None">>

LG_HANDLE_KEY_INPUT == <<"HandleKeyInput">>
LG_HANDLE_CHANNEL_CHANGE == <<"HandleChannelChange">>
DEFAULT_PORT == 8080
DEFAULT_TIMEOUT == 3
HDCP == <<"hdcp">>
ROAP == <<"roap">>
codes_ok == 200

\* LG_QUERY: two of the six wire tokens of the data queries.
LG_QUERY == {<<"cur_channel">>, <<"volume_info">>}

\* LG_COMMAND / LG_COMMAND_2011: some of the codes of the two tables.
LG_COMMAND == {2, 27, 417, 255}

XML_DECL == <<"<?xml version=\"1.0\" encoding=\"utf-8\"?>">>
KEY == XML_DECL \o <<"<auth>", "<type>", "AuthKeyReq", "</type>", "</auth>">>
AUTH == XML_DECL \o <<"<auth>", "<type>", "%s", "</type>",
                      "<value>", "%s", "</value>", "</auth>">>
COMMAND == XML_DECL \o <<"<command>", "<session>", "%s", "</session>",
                         "<type>", "%s", "</type>", "%s", "</command>">>
VALUE == <<"<value>", "%s", "</value>">>
URL_FMT == <<"http://", "%s", ":", "%s", "/", "%s", "/api/">>
POST_URL_FMT == <<"%s", "%s">>
GET_URL_FMT == <<"%s", "data", "?", "target", "=", "%s", "&", "session", "=", "%s">>

(* ------------------------- Python string formatting ------------------- *)

\* template % args: the i-th "%s" of the template becomes args[i], unchanged.
RECURSIVE Format(_, _)
Format(template, args) ==
    IF template = <<>> THEN <<>>
    ELSE IF Head(template) = "%s"
         THEN Head(args) \o Format(Tail(template), Tail(args))
         ELSE <<Head(template)>> \o Format(Tail(template), args)

Digits == <<"0", "1", "2", "3", "4", "5", "6", "7", "8", "9">>

\* "%s" % n for an int n >= 0: its decimal digits.
RECURSIVE IntStr(_)
IntStr(n) ==
    IF n < 10 THEN <<Digits[n + 1]>>
    ELSE IntStr(n \div 10) \o <<Digits[(n % 10) + 1]>>

\* "%s" % v for v a str or None.
PyStr(v) == IF v = None THEN <<"N", "o", "n", "e">> ELSE v

\* Python truth value of a str or None.
Truthy(v) == v # None /\ v # <<>>

(* ------------------------------ ElementTree --------------------------- *)

Tags == {"command", "session", "type", "value", "auth", "data", "x"}

OpenTag(t) == "<" \o t \o ">"
CloseTag(t) == "</" \o t \o ">"
EmptyTag(t) == "<" \o t \o " />"

OpenTags == {OpenTag(t) : t \in Tags}
CloseTags == {CloseTag(t) : t \in Tags}
EmptyTags == {EmptyTag(t) : t \in Tags}

IsOpen(l) == l \in OpenTags
IsEmpty(l) == l \in EmptyTags
IsClose(l) == l \in CloseTags

\* The tag named by a piece of markup.
TagOfMarkup ==
    [l \in OpenTags \cup CloseTags \cup EmptyTags |->
        CHOOSE t \in Tags : l \in {OpenTag(t), CloseTag(t), EmptyTag(t)}]
TagOf(l) == TagOfMarkup[l]

\* Character data: any lexeme that is neither markup nor a bare "&".
NotCharData == OpenTags \cup CloseTags \cup EmptyTags \cup {XML_DECL[1], "&"}
IsCharData(l) == l \notin NotCharData

\* An element: its tag, its text (None when it has none), its children and
\* the index of its start tag in the document it was parsed from (0 for an
\* element built by the caller), which tells two equal elements apart.
Element(tag, text, kids, pos) ==
    [tag |-> tag, text |-> text, kids |-> kids, pos |-> pos]

Decode(l) == IF l = "&amp;" THEN "&" ELSE l
Encode(l) == IF l = "&" THEN "&amp;" ELSE l

DecodeAll(s) == [i \in 1..Len(s) |-> Decode(s[i])]
EncodeAll(s) == [i \in 1..Len(s) |-> Encode(s[i])]

\* The first index >= i of s that is not character data (Len(s)+1 if none).
RECURSIVE SkipText(_, _)
SkipText(s, i) ==
    IF i > Len(s) \/ ~IsCharData(s[i]) THEN i ELSE SkipText(s, i + 1)

ParseError == [ok |-> FALSE]

\* The element starting at s[i], and the index after its end.
RECURSIVE ParseElement(_, _), ParseChildren(_, _, _, _)
ParseElement(s, i) ==
    IF i > Len(s) THEN ParseError
    ELSE IF IsEmpty(s[i])
    THEN [ok |-> TRUE, node |-> Element(TagOf(s[i]), None, <<>>, i), next |-> i + 1]
    ELSE IF ~IsOpen(s[i]) THEN ParseError
    ELSE LET j == SkipText(s, i + 1)
             r == ParseChildren(s, j, TagOf(s[i]), <<>>)
         IN  IF ~r.ok THEN ParseError
             ELSE [ok |-> TRUE,
                   node |-> Element(TagOf(s[i]),
                                    IF j = i + 1 THEN None
                                    ELSE DecodeAll(SubSeq(s, i + 1, j - 1)),
                                    r.kids, i),
                   next |-> r.next]

ParseChildren(s, j, tag, acc) ==
    IF j > Len(s) THEN ParseError
    ELSE IF s[j] = CloseTag(tag) THEN [ok |-> TRUE, kids |-> acc, next |-> j + 1]
    ELSE LET c == ParseElement(s, j)
         IN  IF ~c.ok THEN ParseError
             ELSE ParseChildren(s, SkipText(s, c.next), tag, Append(acc, c.node))

\* ElementTree.XML(text): the root element, or a ParseError.
ElementTree_XML(text) ==
    LET start == IF text # <<>> /\ text[1] = XML_DECL[1] THEN 2 ELSE 1
        r == ParseElement(text, start)
    IN  IF r.ok /\ r.next = Len(text) + 1 THEN r ELSE ParseError

\* ElementTree.tostring(element, encoding='unicode').
RECURSIVE ElementTree_tostring(_), TostringAll(_)
ElementTree_tostring(e) ==
    IF e.text = None /\ e.kids = <<>> THEN <<EmptyTag(e.tag)>>
    ELSE <<OpenTag(e.tag)>>
         \o (IF e.text = None THEN <<>> ELSE EncodeAll(e.text))
         \o TostringAll(e.kids)
         \o <<CloseTag(e.tag)>>

TostringAll(kids) ==
    IF kids = <<>> THEN <<>>
    ELSE ElementTree_tostring(Head(kids)) \o TostringAll(Tail(kids))

\* tree.find(tag): the first child of the root with that tag, if any.
RECURSIVE FindIn(_, _)
FindIn(kids, tag) ==
    IF kids = <<>> THEN [found |-> FALSE]
    ELSE IF Head(kids).tag = tag THEN [found |-> TRUE, node |-> Head(kids)]
    ELSE FindIn(Tail(kids), tag)

\* find looking at the root first, then at its children.
find_from_root(tree, tag) == FindIn(<<tree>> \o tree.kids, tag)

find(tree, tag) == FindIn(tree.kids, tag)

\* iter looking at the children of the root only, as tree.findall does.
iter_findall(tree, tag) == SelectSeq(tree.kids, LAMBDA e : e.tag = tag)

\* tree.iter(tag): the root and all its descendants with that tag, in
\* document order (an element before its children, children left to right).
RECURSIVE iter(_, _), IterAll(_, _)
iter(tree, tag) ==
    (IF tree.tag = tag THEN <<tree>> ELSE <<>>) \o IterAll(tree.kids, tag)

IterAll(kids, tag) ==
    IF kids = <<>> THEN <<>>
    ELSE iter(Head(kids), tag) \o IterAll(Tail(kids), tag)

(* ------------------------------- inputs ------------------------------- *)

Hosts == {<<"tv">>, <<"10.0.0.2">>}
Protocols == {ROAP, HDCP}
\* The pairing token given to the constructor: absent, empty or a key.
AccessTokens == {None, <<>>, <<"K", "1">>}
\* Session identifiers the TV may issue.
SessionIds == {<<"7">>, <<"a", "&">>}
Statuses == {codes_ok, 500}
TransportErrors == {"Timeout", "ConnectionError"}

TextsOf(tag) == IF tag = "session" THEN {None} \cup SessionIds ELSE {None}

\* The sequences of elements over tags that hold n elements in all.
RECURSIVE Forests(_, _)
Forests(n, tags) ==
    IF n = 0 THEN {<<>>}
    ELSE UNION {UNION {{<<Element(t, x, k, 0)>> \o rest :
                           x \in TextsOf(t),
                           k \in Forests(i - 1, tags), rest \in Forests(n - i, tags)} :
                       t \in tags} :
                i \in 1..n}

Documents(max, tags) ==
    {ElementTree_tostring(f[1]) : f \in UNION {Forests(n, tags) : n \in 1..max}}

\* Bodies no XML parser accepts: empty, unclosed, a bare ampersand.
Malformed == {<<>>, <<"<x>", "<session>", "7", "</session>">>,
              <<"<x>", "&", "</x>">>}

AuthTexts == Documents(MaxAuthNodes, {"session", "x"}) \cup Malformed
DataTexts == Documents(MaxDataNodes, {"data", "x"}) \cup Malformed
CommandTexts == {<<"<x />">>}

\* What the transport does with one request: it raises, or it answers.
Raises(e) == [exc |-> e, status_code |-> 0, text |-> <<>>]
Answers(status, text) == [exc |-> "", status_code |-> status, text |-> text]
NoResponse == [exc |-> "", status_code |-> 0, text |-> <<>>]

\* Bodies sent with an error status: none, a document, a malformed one.
ErrorTexts == {<<>>, <<"<x />">>}

Outcomes(texts) ==
    {Raises(e) : e \in TransportErrors}
        \cup {Answers(codes_ok, t) : t \in texts}
        \cup {Answers(st, t) : st \in Statuses \ {codes_ok}, t \in ErrorTexts}

\* Channel descriptors a caller may pass to change_channel.
Channels == {Element("data", None, <<Element("x", <<"7">>, <<>>, 0)>>, 0),
             Element("data", <<"a", "&">>, <<>>, 0),
             Element("x", None, <<>>, 0)}

NoChannel == Element("x", None, <<>>, 0)

\* How the body of a with statement ends: normally (""), or with an
\* exception of the transport, of the parser or of the caller's own code.
ExitPaths == {"", "Timeout", "ParseError", "KeyError"}

(* ------------------------------- the client --------------------------- *)

\* The call last made on the client.
Call(name, command, channel, query, exc_type) ==
    [name |-> name, command |-> command, channel |-> channel, query |-> query,
     exc_type |-> exc_type]

\* How a call ended: the exception it raised ("" if none), what it returned
\* ("None", "self" or "list") and, for a list, its elements.
Raised(e) == [raised |-> e, returns |-> "", value |-> <<>>]
Returned(what, value) == [raised |-> "", returns |-> what, value |-> value]

\* _send_to_tv with the test of the protocol inverted.
_send_to_tv_roap_redirects(message_type, message, payload) ==
    LET mt == IF protocol # HDCP
              THEN IF message_type = <<"auth">> THEN <<"auth">> ELSE <<"dtv_wifirc">>
              ELSE message_type
    IN  IF Truthy(message)
        THEN [method |-> "POST",
              url |-> Format(POST_URL_FMT, <<url, mt>>),
              data |-> message, params |-> <<>>, timeout |-> DEFAULT_TIMEOUT]
        ELSE [method |-> "GET",
              url |-> Format(GET_URL_FMT, <<url, payload.target, PyStr(_session)>>),
              data |-> None, params |-> <<<<"target", payload.target>>>>,
              timeout |-> DEFAULT_TIMEOUT]

\* _send_to_tv building the URL of a GET from the message type, as it
\* builds the URL of a POST.
_send_to_tv_get_by_type(message_type, message, payload) ==
    LET mt == IF protocol = HDCP
              THEN IF message_type = <<"auth">> THEN <<"auth">> ELSE <<"dtv_wifirc">>
              ELSE message_type
    IN  IF Truthy(message)
        THEN [method |-> "POST",
              url |-> Format(POST_URL_FMT, <<url, mt>>),
              data |-> message, params |-> <<>>, timeout |-> DEFAULT_TIMEOUT]
        ELSE [method |-> "GET",
              url |-> Format(<<"%s", "%s", "?", "target", "=", "%s",
                               "&", "session", "=", "%s">>,
                             <<url, mt, payload.target, PyStr(_session)>>),
              data |-> None, params |-> <<<<"target", payload.target>>>>,
              timeout |-> DEFAULT_TIMEOUT]

\* _send_to_tv redirecting, under hdcp, the auth requests and no others.
_send_to_tv_auth_redirected(message_type, message, payload) ==
    LET mt == IF protocol = HDCP
              THEN IF message_type = <<"auth">> THEN <<"dtv_wifirc">> ELSE message_type
              ELSE message_type
    IN  IF Truthy(message)
        THEN [method |-> "POST",
              url |-> Format(POST_URL_FMT, <<url, mt>>),
              data |-> message, params |-> <<>>, timeout |-> DEFAULT_TIMEOUT]
        ELSE [method |-> "GET",
              url |-> Format(GET_URL_FMT, <<url, payload.target, PyStr(_session)>>),
              data |-> None, params |-> <<<<"target", payload.target>>>>,
              timeout |-> DEFAULT_TIMEOUT]

\* _send_to_tv up to the transport call: the request it issues.
_send_to_tv(message_type, message, payload) ==
    LET mt == IF protocol = HDCP
              THEN IF message_type = <<"auth">> THEN <<"auth">> ELSE <<"dtv_wifirc">>
              ELSE message_type
    IN  IF Truthy(message)
        THEN [method |-> "POST",
              url |-> Format(POST_URL_FMT, <<url, mt>>),
              data |-> message, params |-> <<>>, timeout |-> DEFAULT_TIMEOUT]
        ELSE [method |-> "GET",
              url |-> Format(GET_URL_FMT, <<url, payload.target, PyStr(_session)>>),
              data |-> None, params |-> <<<<"target", payload.target>>>>,
              timeout |-> DEFAULT_TIMEOUT]

\* _display_pair_key: the request sent and the exception of the transport.
_display_pair_key(r) ==
    [sent |-> <<_send_to_tv(<<"auth">>, KEY, None)>>, raised |-> r.exc]

\* _get_session_id without the test of the access token: it authenticates
\* with whatever token it holds.
_get_session_id_no_token_test(r) ==
    LET message == Format(AUTH, <<<<"AuthReq">>, PyStr(access_token)>>)
        request == _send_to_tv(<<"auth">>, message, None)
        tree == ElementTree_XML(r.text)
        found == find(tree.node, "session")
        good == r.exc = "" /\ r.status_code = codes_ok /\ tree.ok /\ found.found
    IN  [sent |-> <<request>>,
         raised |-> IF r.exc # "" THEN r.exc
                    ELSE IF r.status_code # codes_ok THEN "SessionIdError"
                    ELSE IF ~tree.ok THEN "ParseError"
                    ELSE IF ~found.found THEN "AttributeError"
                    ELSE "",
         session |-> IF good THEN found.node.text ELSE None]

\* _get_session_id without the test of the status: it parses every body.
_get_session_id_no_status_test(r) ==
    IF ~Truthy(access_token)
    THEN LET d == _display_pair_key(r)
         IN  [sent |-> d.sent,
              raised |-> IF d.raised # "" THEN d.raised ELSE "AccessTokenError",
              session |-> None]
    ELSE LET message == Format(AUTH, <<<<"AuthReq">>, access_token>>)
             request == _send_to_tv(<<"auth">>, message, None)
             tree == ElementTree_XML(r.text)
             found == find(tree.node, "session")
             good == r.exc = "" /\ tree.ok /\ found.found
         IN  [sent |-> <<request>>,
              raised |-> IF r.exc # "" THEN r.exc
                         ELSE IF ~tree.ok THEN "ParseError"
                         ELSE IF ~found.found THEN "AttributeError"
                         ELSE "",
              session |-> IF good THEN found.node.text ELSE None]

\* _get_session_id sending the AuthReq a second time after an error status.
_get_session_id_retries(r) ==
    IF ~Truthy(access_token)
    THEN LET d == _display_pair_key(r)
         IN  [sent |-> d.sent,
              raised |-> IF d.raised # "" THEN d.raised ELSE "AccessTokenError",
              session |-> None]
    ELSE LET message == Format(AUTH, <<<<"AuthReq">>, access_token>>)
             request == _send_to_tv(<<"auth">>, message, None)
             tree == ElementTree_XML(r.text)
             found == find(tree.node, "session")
         IN  [sent |-> IF r.exc = "" /\ r.status_code # codes_ok
                       THEN <<request, request>> ELSE <<request>>,
              raised |-> IF r.exc # "" THEN r.exc
                         ELSE IF r.status_code # codes_ok THEN "SessionIdError"
                         ELSE IF ~tree.ok THEN "ParseError"
                         ELSE IF ~found.found THEN "AttributeError"
                         ELSE "",
              session |-> IF r.exc = "" /\ r.status_code = codes_ok
                             /\ tree.ok /\ found.found
                          THEN found.node.text ELSE None]

\* _get_session_id, the transport doing r with the request: the requests
\* sent, the exception raised ("" if none) and the session returned.
_get_session_id(r) ==
    IF ~Truthy(access_token)
    THEN LET d == _display_pair_key(r)
         IN  [sent |-> d.sent,
              raised |-> IF d.raised # "" THEN d.raised ELSE "AccessTokenError",
              session |-> None]
    ELSE LET message == Format(AUTH, <<<<"AuthReq">>, access_token>>)
             request == _send_to_tv(<<"auth">>, message, None)
             tree == ElementTree_XML(r.text)
             found == find(tree.node, "session")
         IN  [sent |-> <<request>>,
              raised |-> IF r.exc # "" THEN r.exc
                         ELSE IF r.status_code # codes_ok THEN "SessionIdError"
                         ELSE IF ~tree.ok THEN "ParseError"
                         ELSE IF ~found.found THEN "AttributeError"
                         ELSE "",
              session |-> IF r.exc = "" /\ r.status_code = codes_ok
                             /\ tree.ok /\ found.found
                          THEN found.node.text ELSE None]

Init ==
    /\ protocol \in Protocols
    /\ \E host \in Hosts :
           url = Format(URL_FMT, <<host, IntStr(DEFAULT_PORT), protocol>>)
    /\ access_token \in AccessTokens
    /\ _session = None
    /\ op = Call("__init__", 0, NoChannel, <<>>, "")
    /\ sent = <<>>
    /\ resp = NoResponse
    /\ outcome = Returned("None", <<>>)

\* __enter__ refusing again after an earlier attempt without a token.
__enter___remembers_failure ==
    \E r \in Outcomes(AuthTexts) :
        LET first == _get_session_id(r)
            got == IF outcome.raised = "AccessTokenError"
                   THEN [sent |-> first.sent, raised |-> "AccessTokenError",
                         session |-> None]
                   ELSE first
        IN  /\ _session' = IF got.raised = "" THEN got.session ELSE _session
            /\ op' = Call("__enter__", 0, NoChannel, <<>>, "")
            /\ sent' = got.sent
            /\ resp' = r
            /\ outcome' = IF got.raised = "" THEN Returned("self", <<>>)
                          ELSE Raised(got.raised)
            /\ UNCHANGED <<url, access_token, protocol>>

__enter__ ==
    \E r \in Outcomes(AuthTexts) :
        LET got == _get_session_id(r)
        IN  /\ _session' = IF got.raised = "" THEN got.session ELSE _session
            /\ op' = Call("__enter__", 0, NoChannel, <<>>, "")
            /\ sent' = got.sent
            /\ resp' = r
            /\ outcome' = IF got.raised = "" THEN Returned("self", <<>>)
                          ELSE Raised(got.raised)
            /\ UNCHANGED <<url, access_token, protocol>>

\* __exit__ clearing the session on a normal exit only.
__exit___on_normal_exit(exc_type) ==
    /\ _session' = IF exc_type = "" THEN None ELSE _session
    /\ op' = Call("__exit__", 0, NoChannel, <<>>, exc_type)
    /\ sent' = <<>>
    /\ resp' = NoResponse
    /\ outcome' = Returned("None", <<>>)
    /\ UNCHANGED <<url, access_token, protocol>>

\* __exit__(exc_type, exc_val, exc_tb): exc_type is "" (None) when the body
\* of the with statement ended normally, else the exception it raised.
__exit__(exc_type) ==
    /\ _session' = None
    /\ op' = Call("__exit__", 0, NoChannel, <<>>, exc_type)
    /\ sent' = <<>>
    /\ resp' = NoResponse
    /\ outcome' = Returned("None", <<>>)
    /\ UNCHANGED <<url, access_token, protocol>>

\* send_command raising for an error status, as response.raise_for_status().
send_command_checks_status(command) ==
    \E r \in Outcomes(CommandTexts) :
        LET message == Format(COMMAND, <<PyStr(_session), LG_HANDLE_KEY_INPUT,
                                         Format(VALUE, <<IntStr(command)>>)>>)
        IN  /\ op' = Call("send_command", command, NoChannel, <<>>, "")
            /\ sent' = <<_send_to_tv(<<"command">>, message, None)>>
            /\ resp' = r
            /\ outcome' = IF r.exc # "" THEN Raised(r.exc)
                          ELSE IF r.status_code # codes_ok THEN Raised("HTTPError")
                          ELSE Returned("None", <<>>)
            /\ UNCHANGED <<url, access_token, protocol, _session>>

send_command(command) ==
    \E r \in Outcomes(CommandTexts) :
        LET message == Format(COMMAND, <<PyStr(_session), LG_HANDLE_KEY_INPUT,
                                         Format(VALUE, <<IntStr(command)>>)>>)
        IN  /\ op' = Call("send_command", command, NoChannel, <<>>, "")
            /\ sent' = <<_send_to_tv(<<"command">>, message, None)>>
            /\ resp' = r
            /\ outcome' = IF r.exc # "" THEN Raised(r.exc) ELSE Returned("None", <<>>)
            /\ UNCHANGED <<url, access_token, protocol, _session>>

change_channel(channel) ==
    \E r \in Outcomes(CommandTexts) :
        LET message == Format(COMMAND, <<PyStr(_session), LG_HANDLE_CHANNEL_CHANGE,
                                         ElementTree_tostring(channel)>>)
        IN  /\ op' = Call("change_channel", 0, channel, <<>>, "")
            /\ sent' = <<_send_to_tv(<<"command">>, message, None)>>
            /\ resp' = r
            /\ outcome' = IF r.exc # "" THEN Raised(r.exc) ELSE Returned("None", <<>>)
            /\ UNCHANGED <<url, access_token, protocol, _session>>

\* query_data parsing the body before it tests the status.
QueryResult_parses_first(r) ==
    IF r.exc # "" THEN Raised(r.exc)
    ELSE LET tree == ElementTree_XML(r.text)
         IN  IF ~tree.ok THEN Raised("ParseError")
             ELSE IF r.status_code = codes_ok
             THEN Returned("list", iter(tree.node, "data"))
             ELSE Returned("None", <<>>)

\* What query_data makes of the response r.
QueryResult(r) ==
    IF r.exc # "" THEN Raised(r.exc)
    ELSE IF r.status_code = codes_ok
    THEN LET tree == ElementTree_XML(r.text)
         IN  IF ~tree.ok THEN Raised("ParseError")
             ELSE Returned("list", iter(tree.node, "data"))
    ELSE Returned("None", <<>>)

\* query_data dropping the session after an error status.
query_data_drops_session(query) ==
    \E r \in Outcomes(DataTexts) :
        /\ op' = Call("query_data", 0, NoChannel, query, "")
        /\ sent' = <<_send_to_tv(<<"data">>, None, [target |-> query])>>
        /\ resp' = r
        /\ outcome' = QueryResult(r)
        /\ _session' = IF r.exc = "" /\ r.status_code # codes_ok
                       THEN None ELSE _session
        /\ UNCHANGED <<url, access_token, protocol>>

query_data(query) ==
    \E r \in Outcomes(DataTexts) :
        /\ op' = Call("query_data", 0, NoChannel, query, "")
        /\ sent' = <<_send_to_tv(<<"data">>, None, [target |-> query])>>
        /\ resp' = r
        /\ outcome' = QueryResult(r)
        /\ UNCHANGED <<url, access_token, protocol, _session>>

Next ==
    \/ __enter__
    \/ \E exc_type \in ExitPaths : __exit__(exc_type)
    \/ \E command \in LG_COMMAND : send_command(command)
    \/ \E channel \in Channels : change_channel(channel)
    \/ \E query \in LG_QUERY : query_data(query)

Spec == Init /\ [][Next]_vars

\* The caller of a client made without a token, who reads the pairing key
\* off the screen after the refused attempt and assigns it to the client.
set_access_token(token) ==
    /\ op.name = "__enter__" /\ outcome.raised = "AccessTokenError"
    /\ ~Truthy(access_token) /\ Truthy(token)
    /\ access_token' = token
    /\ UNCHANGED <<url, protocol, _session, op, sent, resp, outcome>>

InitRetry == Init /\ ~Truthy(access_token)

NextRetry ==
    \/ Next
    \/ \E token \in AccessTokens : set_access_token(token)

SpecRetry == InitRetry /\ [][NextRetry]_vars

TypeOK ==
    /\ op.name \in {"__init__", "__enter__", "__exit__", "send_command",
                    "change_channel", "query_data"}
    /\ Len(sent) <= 1

(* ------------------------------- claims ------------------------------- *)

IsCommandCall == op.name \in {"send_command", "change_channel"}
IsRequestCall == op.name \in {"send_command", "change_channel", "query_data"}
IsConnect == op.name = "__enter__"

\* The <type> of an auth request, read back from its body (None if the body
\* is no document with a type child).
AuthTypeOf(request) ==
    LET tree == ElementTree_XML(request.data)
    IN  IF tree.ok /\ find(tree.node, "type").found
        THEN find(tree.node, "type").node.text ELSE None

\* The requests among reqs whose <type> is type.
RequestsOfType(reqs, type) ==
    {i \in 1..Len(reqs) : reqs[i].method = "POST" /\ AuthTypeOf(reqs[i]) = type}

\* C1: no command, channel-change or query request is dispatched while the
\* held session is unset; the call is rejected with NotConnected instead.
C1_NoRequestWithoutSession ==
    (IsRequestCall /\ _session = None)
        => (sent = <<>> /\ outcome.raised = "NotConnected")

\* C2 as stated: with an empty or absent token every connect fails with
\* AccessTokenError, sends one AuthKeyReq and no AuthReq, and leaves the
\* session unset.
C2_AlwaysAccessTokenError ==
    (IsConnect /\ ~Truthy(access_token))
        => /\ outcome.raised = "AccessTokenError"
           /\ Cardinality(RequestsOfType(sent, <<"AuthKeyReq">>)) = 1
           /\ Cardinality(RequestsOfType(sent, <<"AuthReq">>)) = 0
           /\ _session = None

\* C2 as amended: with an empty or absent token every connect sends one
\* AuthKeyReq and no AuthReq, leaves the session unset and fails: with
\* AccessTokenError when the transport answers the AuthKeyReq (whatever the
\* answer), with the transport's error when the transport raises.
C2_EmptyTokenConnectFails ==
    (IsConnect /\ ~Truthy(access_token))
        => /\ outcome.raised = (IF resp.exc # "" THEN resp.exc ELSE "AccessTokenError")
           /\ Len(sent) = 1
           /\ RequestsOfType(sent, <<"AuthKeyReq">>) = {1}
           /\ RequestsOfType(sent, <<"AuthReq">>) = {}
           /\ _session = None

C2_Witness ==
    /\ IsConnect /\ access_token = <<>> /\ resp.exc = ""
    /\ resp.status_code = codes_ok /\ outcome.raised = "AccessTokenError"
    /\ Len(sent) = 1

\* C3: a connect with a non-empty token whose auth response has a
\* non-success status raises SessionIdError whatever the body (a body that
\* is no XML included) and leaves an unset session unset.
C3_NonSuccessAuthStatus ==
    [][(IsConnect' /\ Truthy(access_token) /\ resp'.exc = ""
            /\ resp'.status_code # codes_ok)
         => /\ outcome'.raised = "SessionIdError"
            /\ (_session = None => _session' = None)]_vars

C3_Witness ==
    /\ IsConnect /\ Truthy(access_token) /\ resp.exc = ""
    /\ resp.status_code # codes_ok /\ ~ElementTree_XML(resp.text).ok
    /\ outcome.raised = "SessionIdError" /\ _session = None

(* Reading a document as text, without parsing it. *)

\* How many elements are open just before text[i].
Depth(text, i) ==
    Cardinality({k \in 1..(i - 1) : IsOpen(text[k])})
        - Cardinality({k \in 1..(i - 1) : IsClose(text[k])})

\* The character data that follows text[i], decoded.
CharDataAfter(text, i) ==
    LET stop == CHOOSE j \in (i + 1)..(Len(text) + 1) :
                    /\ j = Len(text) + 1 \/ ~IsCharData(text[j])
                    /\ \A k \in (i + 1)..(j - 1) : IsCharData(text[k])
    IN  [k \in 1..(stop - i - 1) |-> Decode(text[i + k])]

\* Where text has <session>S</session> with S not empty.
SessionElementsAt(text) ==
    {i \in 1..Len(text) :
        /\ text[i] = OpenTag("session")
        /\ CharDataAfter(text, i) # <<>>
        /\ i + Len(CharDataAfter(text, i)) + 1 <= Len(text)
        /\ text[i + Len(CharDataAfter(text, i)) + 1] = CloseTag("session")}

\* Where the root of text has a child named session.
SessionChildrenAt(text) ==
    {i \in 1..Len(text) :
        /\ text[i] \in {OpenTag("session"), EmptyTag("session")}
        /\ Depth(text, i) = 1}

Min(S) == CHOOSE n \in S : \A m \in S : n <= m

\* The request has S in the place of its session.
Carries(request, S) ==
    IF request.method = "POST"
    THEN /\ Len(request.data) >= Len(S) + 4
         /\ SubSeq(request.data, 3, Len(S) + 4)
                = <<OpenTag("session")>> \o S \o <<CloseTag("session")>>
    ELSE /\ Len(request.url) >= Len(S) + 3
         /\ SubSeq(request.url, Len(request.url) - Len(S) - 2, Len(request.url))
                = <<"&", "session", "=">> \o S

AuthSucceeded ==
    /\ IsConnect /\ Truthy(access_token)
    /\ resp.exc = "" /\ resp.status_code = codes_ok

\* C4 as stated: when the auth response has success status and contains
\* <session>S</session>, connect succeeds and holds exactly S.
C4_AnySessionElement ==
    AuthSucceeded
        => \A i \in SessionElementsAt(resp.text) :
               /\ outcome.raised = ""
               /\ _session = CharDataAfter(resp.text, i)

\* C4 as amended: when the auth response has success status and is a
\* well-formed document whose root has a child named session, the first
\* such child having the non-empty text S, connect succeeds and holds
\* exactly S; every later command, channel change and query carries the
\* held session, which none of them changes.
C4_FirstSessionChild ==
    /\ [](AuthSucceeded /\ ElementTree_XML(resp.text).ok
              /\ SessionChildrenAt(resp.text) # {}
              /\ CharDataAfter(resp.text, Min(SessionChildrenAt(resp.text))) # <<>>
            => /\ outcome = Returned("self", <<>>)
               /\ _session = CharDataAfter(resp.text, Min(SessionChildrenAt(resp.text))))
    /\ []((IsRequestCall /\ _session # None) => Carries(sent[1], _session))
    /\ [][IsRequestCall' => _session' = _session]_vars

C4_Witness ==
    /\ AuthSucceeded /\ protocol = HDCP
    /\ resp.text = <<"<session>", "7", "<session>", "a", "&amp;", "</session>",
                     "</session>">>
    /\ _session = <<"a", "&">>

\* The part of the URL of a request after the base URL, up to its "?".
PathOf(request) ==
    LET rest == SubSeq(request.url, Len(url) + 1, Len(request.url))
        stop == IF \E k \in 1..Len(rest) : rest[k] = "?"
                THEN Min({k \in 1..Len(rest) : rest[k] = "?"}) ELSE Len(rest) + 1
    IN  IF SubSeq(request.url, 1, Len(url)) = url
        THEN SubSeq(rest, 1, stop - 1) ELSE None

\* C5: under hdcp a key or channel-change command goes to dtv_wifirc, under
\* roap to command; under both the display-key and the authenticate request
\* go to auth.
C5_CommandAndAuthPaths ==
    /\ IsCommandCall
           => PathOf(sent[1]) = (IF protocol = HDCP THEN <<"dtv_wifirc">>
                                 ELSE <<"command">>)
    /\ IsConnect => PathOf(sent[1]) = <<"auth">>

C5_Witness ==
    /\ op.name = "change_channel" /\ protocol = HDCP
    /\ PathOf(sent[1]) = <<"dtv_wifirc">>

\* C6: under both dialects a query is a GET of
\* <base URL>data?target=<wire token>&session=<held session>, the target
\* given as a parameter too, and has no body.
C6_QueryRequest ==
    (op.name = "query_data" /\ _session # None)
        => /\ Len(sent) = 1
           /\ sent[1].method = "GET"
           /\ sent[1].url = url \o <<"data", "?", "target", "=">> \o op.query
                                \o <<"&", "session", "=">> \o _session
           /\ sent[1].params = <<<<"target", op.query>>>>
           /\ sent[1].data = None

C6_Witness ==
    /\ op.name = "query_data" /\ protocol = HDCP /\ _session = <<"7">>
    /\ PathOf(sent[1]) = <<"data">>

\* C7 as stated: under hdcp every request that is no auth request, a query
\* included, goes to dtv_wifirc.
C7_LegacyRedirectsAll ==
    (protocol = HDCP /\ IsRequestCall) => PathOf(sent[1]) = <<"dtv_wifirc">>

\* C7 as amended: under hdcp every key-input and channel-change command
\* goes to dtv_wifirc, whatever its content, and every query goes to data,
\* whatever its target.
C7_LegacyRedirectsCommands ==
    protocol = HDCP
        => /\ \A c \in LG_COMMAND :
                  (op.name = "send_command" /\ op.command = c)
                      => PathOf(sent[1]) = <<"dtv_wifirc">>
           /\ \A ch \in Channels :
                  (op.name = "change_channel" /\ op.channel = ch)
                      => PathOf(sent[1]) = <<"dtv_wifirc">>
           /\ \A q \in LG_QUERY :
                  (op.name = "query_data" /\ op.query = q)
                      => PathOf(sent[1]) = <<"data">>

C7_Witness ==
    /\ protocol = HDCP /\ op.name = "query_data"
    /\ sent[1].method = "GET" /\ PathOf(sent[1]) = <<"data">>

IsErrorAnswer == resp.exc = "" /\ resp.status_code # codes_ok

\* C8 as stated: a send_command or change_channel whose response has a
\* non-success status does not raise and returns the response.
C8_ReturnsResponse ==
    (IsCommandCall /\ IsErrorAnswer)
        => (outcome.raised = "" /\ outcome.returns = "response")

\* C8 as amended: a send_command or change_channel whose response has a
\* non-success status does not raise and returns None, as it does for a
\* success status: the response is dropped.
C8_ReturnsNone ==
    (IsCommandCall /\ resp.exc = "") => outcome = Returned("None", <<>>)

C8_Witness ==
    /\ op.name = "send_command" /\ IsErrorAnswer
    /\ outcome = Returned("None", <<>>)

\* Where text has the start of a data element.
DataElementsAt(text) ==
    {i \in 1..Len(text) : text[i] \in {OpenTag("data"), EmptyTag("data")}}

\* C9: for a success status and a well-formed body, query_data returns the
\* data elements of the body, each once, in the order in which they start
\* in the body, whatever their depth; it returns the empty list when there
\* is none.
C9_DataInDocumentOrder ==
    (op.name = "query_data" /\ resp.exc = "" /\ resp.status_code = codes_ok
         /\ ElementTree_XML(resp.text).ok)
        => /\ outcome.raised = ""
           /\ outcome.returns = "list"
           /\ Len(outcome.value) = Cardinality(DataElementsAt(resp.text))
           /\ \A k \in 1..Len(outcome.value) :
                  /\ outcome.value[k].pos \in DataElementsAt(resp.text)
                  /\ outcome.value[k] = ParseElement(resp.text, outcome.value[k].pos).node
                  /\ k < Len(outcome.value)
                         => outcome.value[k].pos < outcome.value[k + 1].pos

C9_Witness ==
    /\ op.name = "query_data" /\ resp.status_code = codes_ok
    /\ resp.text = <<"<data>", "<data>", "<data />", "</data>", "</data>">>
    /\ Len(outcome.value) = 3

DigitValue(d) == CHOOSE n \in 0..9 : Digits[n + 1] = d

\* The number a string of digits denotes.
RECURSIVE IntOf(_)
IntOf(s) ==
    IF s = <<>> THEN 0
    ELSE 10 * IntOf(SubSeq(s, 1, Len(s) - 1)) + DigitValue(s[Len(s)])

IsDecimal(s) ==
    /\ s # None /\ s # <<>>
    /\ \A k \in 1..Len(s) : \E n \in 0..9 : Digits[n + 1] = s[k]
    /\ Len(s) > 1 => s[1] # "0"

\* The element e as built by a caller: no positions.
RECURSIVE Unplaced(_)
Unplaced(e) ==
    Element(e.tag, e.text, [k \in 1..Len(e.kids) |-> Unplaced(e.kids[k])], 0)

\* The envelope is a document with root command and children session (with
\* text S), type (with text handler) and one more.
IsEnvelope(data, S, handler) ==
    LET tree == ElementTree_XML(data)
    IN  /\ tree.ok
        /\ tree.node.tag = "command"
        /\ Len(tree.node.kids) = 3
        /\ tree.node.kids[1].tag = "session"
        /\ tree.node.kids[1].text = S
        /\ tree.node.kids[2].tag = "type"
        /\ tree.node.kids[2].text = handler

\* C10: with a session S held, send_command(c) sends an envelope with root
\* command, a session child with text S, a type child with text
\* HandleKeyInput and a value child whose text is c in decimal;
\* change_channel sends the same with HandleChannelChange and the
\* descriptor as the third child.
C10_Envelope ==
    /\ (op.name = "send_command" /\ _session # None)
           => /\ IsEnvelope(sent[1].data, _session, LG_HANDLE_KEY_INPUT)
              /\ LET value == ElementTree_XML(sent[1].data).node.kids[3]
                 IN  /\ value.tag = "value"
                     /\ value.kids = <<>>
                     /\ IsDecimal(value.text)
                     /\ IntOf(value.text) = op.command
    /\ (op.name = "change_channel" /\ _session # None)
           => /\ IsEnvelope(sent[1].data, _session, LG_HANDLE_CHANNEL_CHANGE)
              /\ Unplaced(ElementTree_XML(sent[1].data).node.kids[3]) = op.channel

\* The same for the sessions that need no escaping in XML.
C10_EnvelopePlainSession ==
    (\A k \in 1..Len(_session) : _session[k] # "&") => C10_Envelope

\* C11: a disconnect, whether the scope is left normally or by an
\* exception, ends with the session unset, sends nothing and lets the
\* exception through (it returns None).
C11_DisconnectClears ==
    [][op'.name = "__exit__"
         => /\ _session' = None
            /\ sent' = <<>>
            /\ outcome' = Returned("None", <<>>)]_vars

C11_Witness ==
    /\ op.name = "__exit__" /\ op.exc_type = "Timeout"
    /\ _session = None /\ sent = <<>>

\* C12: when the transport raises during a display-key request, an
\* authentication, a command, a channel change or a query, the call raises
\* the transport's error, and a connect that fails this way leaves the
\* session unset.
C12_TransportErrorSurfaced ==
    (sent # <<>> /\ resp.exc # "")
        => /\ outcome.raised = resp.exc
           /\ IsConnect => _session = None

\* The part of C12 about the error alone: the call raises the transport's
\* error, and a connect started without a session ends without one.
C12_TransportErrorRaised ==
    /\ []((sent # <<>> /\ resp.exc # "") => outcome.raised = resp.exc)
    /\ [][(IsConnect' /\ resp'.exc # "" /\ _session = None)
            => _session' = None]_vars

\* C13: a connect hands exactly one request to the transport, an AuthKeyReq
\* or an AuthReq, and a send_command, change_channel or query_data exactly
\* one, whatever the transport does with it.
C13_OneRequestPerCall ==
    /\ IsConnect
           => /\ Len(sent) = 1
              /\ Cardinality(RequestsOfType(sent, <<"AuthKeyReq">>))
                     + Cardinality(RequestsOfType(sent, <<"AuthReq">>)) = 1
    /\ IsRequestCall => Len(sent) = 1

C13_Witness ==
    /\ IsConnect /\ Truthy(access_token) /\ resp.exc = ""
    /\ resp.status_code # codes_ok /\ Len(sent) = 1
    /\ RequestsOfType(sent, <<"AuthReq">>) = {1}

\* C14: after a connect that returned without error the held session is a
\* non-empty string.
C14_ConnectedHoldsSession ==
    (IsConnect /\ outcome.raised = "") => Truthy(_session)

\* C15: after a connect that failed, whatever the client held when it
\* started, the client holds no session.
C15_FailedConnectClears ==
    (IsConnect /\ outcome.raised # "") => _session = None

\* C16: a query whose response has a non-success status returns None
\* without raising, whatever the body (a body that is no XML included), and
\* leaves the held session as it was.
C16_QueryErrorStatus ==
    [][(op'.name = "query_data" /\ resp'.exc = "" /\ resp'.status_code # codes_ok)
         => /\ outcome' = Returned("None", <<>>)
            /\ _session' = _session]_vars

C16_Witness ==
    /\ op.name = "query_data" /\ IsErrorAnswer
    /\ ~ElementTree_XML(resp.text).ok
    /\ outcome = Returned("None", <<>>) /\ _session = <<"7">>

\* C17: send_command, change_channel and query_data leave the session, the
\* token, the base URL and the protocol as they were, whatever the
\* response; the session changes in a connect or a disconnect only.
C17_RequestsChangeNothing ==
    [][/\ IsRequestCall' => UNCHANGED <<_session, access_token, url, protocol>>
       /\ _session' # _session => op'.name \in {"__enter__", "__exit__"}]_vars

C17_Witness ==
    /\ op.name = "query_data" /\ IsErrorAnswer /\ protocol = ROAP
    /\ _session = <<"a", "&">> /\ access_token = <<"K", "1">>

\* A connect with a token that follows a connect refused for want of one.
RetryStep ==
    /\ op.name = "__enter__" /\ outcome.raised = "AccessTokenError"
    /\ Truthy(access_token) /\ access_token' = access_token
    /\ op'.name = "__enter__"
    /\ RequestsOfType(sent', <<"AuthReq">>) = {1}
    /\ resp'.exc = "" /\ resp'.status_code = codes_ok

\* C18 as stated: after a connect without a token has failed with
\* AccessTokenError, a connect on the same client with a token and a success
\* response containing <session>S</session> returns holding exactly S.
C18_RetryAnySessionElement ==
    [][RetryStep
         => \A i \in SessionElementsAt(resp'.text) :
                /\ outcome' = Returned("self", <<>>)
                /\ _session' = CharDataAfter(resp'.text, i)]_vars

\* C18 as amended: the connect refused for want of a token changes no field
\* of the client, and the connect with a token that follows it, given a
\* success response that is a well-formed document whose root's first
\* session child has the non-empty text S, returns holding exactly S.
C18_RetryFirstSessionChild ==
    /\ [][(op'.name = "__enter__" /\ outcome'.raised = "AccessTokenError"
              /\ ~Truthy(access_token'))
            => UNCHANGED <<_session, access_token, url, protocol>>]_vars
    /\ [][(/\ RetryStep
           /\ ElementTree_XML(resp'.text).ok
           /\ SessionChildrenAt(resp'.text) # {}
           /\ CharDataAfter(resp'.text, Min(SessionChildrenAt(resp'.text))) # <<>>)
            => /\ outcome' = Returned("self", <<>>)
               /\ _session' = CharDataAfter(resp'.text,
                                            Min(SessionChildrenAt(resp'.text)))]_vars

C18_Witness ==
    /\ op.name = "__enter__" /\ access_token = <<"K", "1">>
    /\ resp.text = <<"<x>", "<session>", "7", "</session>", "</x>">>
    /\ outcome = Returned("self", <<>>) /\ _session = <<"7">>

====
